---- MODULE Spec2Model ----
(***************************************************************************)
(* slice-text: occurrence search, overlap merging and gap filling.         *)
(*                                                                         *)
(* A Slice is a record [start, end, matched]; the optional `matched`       *)
(* property of the TypeScript interface is one of "undefined", "true",     *)
(* "false".  Sequences are 1-based here and 0-based in the source; text    *)
(* positions (start, end, lastIndex) keep the source's 0-based values.     *)
(***************************************************************************)
EXTENDS Integers, Sequences, FiniteSets, TLC

\* ------------------------------------------------------------------ bounds
\* largest position a span given directly to mergeOverlap / fillSliceGaps uses
MaxPos == 3
\* longest span list given directly to mergeOverlap / fillSliceGaps
MaxSpans == 3
\* longest text given to slicing / sliceText, in code units
MaxText == 3
\* longest searchWords array given to slicing / sliceText
MaxWords == 2
\* longest string given directly to escapeRegex / pattern
MaxString == 3

\* ------------------------------------------------------------------ slices
Max(a, b) == IF a >= b THEN a ELSE b

\* { start, end }: an object literal without the matched property
Slice(s, e) == [start |-> s, end |-> e, matched |-> "undefined"]

\* Array.prototype.toSorted((a, b) => a.start - b.start): a stable sort, so
\* slices with equal start keep their input order.
RECURSIVE InsertByStart(_, _)
InsertByStart(sorted, x) ==
    IF sorted = <<>> THEN <<x>>
    ELSE IF sorted[Len(sorted)].start <= x.start THEN Append(sorted, x)
    ELSE Append(InsertByStart(SubSeq(sorted, 1, Len(sorted) - 1), x),
                sorted[Len(sorted)])

RECURSIVE toSortedFrom(_, _, _)
toSortedFrom(slices, i, acc) ==
    IF i > Len(slices) THEN acc
    ELSE toSortedFrom(slices, i + 1, InsertByStart(acc, slices[i]))

\* faulty variant of toSorted: the sort is left out
toSorted_unsorted(slices) == slices

toSorted(slices) == toSortedFrom(slices, 1, <<>>)

\* faulty variant of mergeLoop: a merged slice ends at next.end, not at the
\* larger end
RECURSIVE mergeLoop_noMax(_, _, _, _)
mergeLoop_noMax(sortedSlices, i, current, merged) ==
    IF i > Len(sortedSlices) THEN Append(merged, current)
    ELSE LET next == sortedSlices[i] IN
         IF next.start <= current.end
         THEN mergeLoop_noMax(sortedSlices, i + 1,
                              Slice(current.start, next.end), merged)
         ELSE mergeLoop_noMax(sortedSlices, i + 1, next, Append(merged, current))

\* faulty variant of mergeLoop: the last accumulator is not flushed
RECURSIVE mergeLoop_noFlush(_, _, _, _)
mergeLoop_noFlush(sortedSlices, i, current, merged) ==
    IF i > Len(sortedSlices) THEN merged
    ELSE LET next == sortedSlices[i] IN
         IF next.start <= current.end
         THEN mergeLoop_noFlush(sortedSlices, i + 1,
                                Slice(current.start, Max(current.end, next.end)),
                                merged)
         ELSE mergeLoop_noFlush(sortedSlices, i + 1, next, Append(merged, current))

\* faulty variant of mergeLoop: touching slices are not merged (< for <=)
RECURSIVE mergeLoop_strict(_, _, _, _)
mergeLoop_strict(sortedSlices, i, current, merged) ==
    IF i > Len(sortedSlices) THEN Append(merged, current)
    ELSE LET next == sortedSlices[i] IN
         IF next.start < current.end
         THEN mergeLoop_strict(sortedSlices, i + 1,
                               Slice(current.start, Max(current.end, next.end)),
                               merged)
         ELSE mergeLoop_strict(sortedSlices, i + 1, next, Append(merged, current))

\* the for loop of mergeOverlap; i is the 1-based index of `next`
RECURSIVE mergeLoop(_, _, _, _)
mergeLoop(sortedSlices, i, current, merged) ==
    IF i > Len(sortedSlices) THEN Append(merged, current)
    ELSE LET next == sortedSlices[i] IN
         IF next.start <= current.end
         THEN mergeLoop(sortedSlices, i + 1,
                        Slice(current.start, Max(current.end, next.end)),
                        merged)
         ELSE mergeLoop(sortedSlices, i + 1, next, Append(merged, current))

mergeOverlap(slices) ==
    IF Len(slices) = 0 THEN slices
    ELSE LET sortedSlices == toSorted(slices)
         IN mergeLoop(sortedSlices, 2, sortedSlices[1], <<>>)

\* faulty variant of push: the span is appended without the test
\* end - start > 0
push_noGuard(matchedSlices, start, end, matched) ==
    Append(matchedSlices,
           [start |-> start, end |-> end,
            matched |-> IF matched THEN "true" ELSE "false"])

\* the push closure of fillSliceGaps
push(matchedSlices, start, end, matched) ==
    IF end - start > 0
    THEN Append(matchedSlices,
                [start |-> start, end |-> end,
                 matched |-> IF matched THEN "true" ELSE "false"])
    ELSE matchedSlices

\* faulty variant of fillLoop: startIndex is not moved to the end of the slice
RECURSIVE fillLoop_noAdvance(_, _, _, _)
fillLoop_noAdvance(slices, i, matchedSlices, startIndex) ==
    IF i > Len(slices) THEN [out |-> matchedSlices, startIndex |-> startIndex]
    ELSE LET slice == slices[i]
             gap == push(matchedSlices, startIndex, slice.start, FALSE)
             hit == push(gap, slice.start, slice.end, TRUE)
         IN fillLoop_noAdvance(slices, i + 1, hit, startIndex)

\* slices.forEach(...) of fillSliceGaps; r = [out, startIndex]
RECURSIVE fillLoop(_, _, _, _)
fillLoop(slices, i, matchedSlices, startIndex) ==
    IF i > Len(slices) THEN [out |-> matchedSlices, startIndex |-> startIndex]
    ELSE LET slice == slices[i]
             gap == push(matchedSlices, startIndex, slice.start, FALSE)
             hit == push(gap, slice.start, slice.end, TRUE)
         IN fillLoop(slices, i + 1, hit, slice.end)

\* faulty variant of fillSliceGaps: no early return for textLength 0
fillSliceGaps_noZeroCheck(slices, textLength) ==
    IF Len(slices) = 0 THEN push(<<>>, 0, textLength, FALSE)
    ELSE LET r == fillLoop(slices, 1, <<>>, 0)
         IN push(r.out, r.startIndex, textLength, FALSE)

\* faulty variant of fillSliceGaps: an empty span list gives an empty output
fillSliceGaps_emptyForEmpty(slices, textLength) ==
    IF textLength = 0 THEN <<>>
    ELSE IF Len(slices) = 0 THEN <<>>
    ELSE LET r == fillLoop(slices, 1, <<>>, 0)
         IN push(r.out, r.startIndex, textLength, FALSE)

fillSliceGaps(slices, textLength) ==
    IF textLength = 0 THEN <<>>
    ELSE IF Len(slices) = 0 THEN push(<<>>, 0, textLength, FALSE)
    ELSE LET r == fillLoop(slices, 1, <<>>, 0)
         IN push(r.out, r.startIndex, textLength, FALSE)

\* ------------------------------------------------------------------ fns
\* A string is a sequence of one-character strings (UTF-16 code units).
\* "H" stands for a lead surrogate and "L" for a trail surrogate: "H","L"
\* side by side are one astral character (one code point, two code units).

\* the character class of escapeRegex: ( ) [ ] { } / * + ? . \ ^ $ | -
Specials == {"(", ")", "[", "]", "{", "}", "/", "*", "+", "?", ".", "\\",
             "^", "$", "|", "-"}

\* faulty variant of escapeRegex: the hyphen is missing from the class
RECURSIVE escapeRegex_noHyphen(_)
escapeRegex_noHyphen(string) ==
    IF string = <<>> THEN <<>>
    ELSE (IF string[1] \in Specials \ {"-"}
          THEN <<"\\", string[1]>> ELSE <<string[1]>>)
         \o escapeRegex_noHyphen(Tail(string))

\* string.replace(/[...]/g, `\\$&`)
RECURSIVE escapeRegex(_)
escapeRegex(string) ==
    IF string = <<>> THEN <<>>
    ELSE (IF string[1] \in Specials THEN <<"\\", string[1]>> ELSE <<string[1]>>)
         \o escapeRegex(Tail(string))

\* String.prototype.trim() === '' : only white space
IsBlank(word) == \A i \in 1..Len(word) : word[i] = " "

\* faulty variant of pattern: boundary true anchors the start only
pattern_noEndAnchor(word, boundary) ==
    IF IsBlank(word) \/ boundary = "false" THEN word
    ELSE IF boundary = "start" THEN <<"\\", "b">> \o word \o <<"\\", "w", "+">>
    ELSE IF boundary = "end" THEN <<"\\", "w", "+">> \o word \o <<"\\", "b">>
    ELSE IF boundary = "true" THEN <<"\\", "b">> \o word
    ELSE word

\* faulty variant of pattern: \w* for \w+
pattern_starForPlus(word, boundary) ==
    IF IsBlank(word) \/ boundary = "false" THEN word
    ELSE IF boundary = "start" THEN <<"\\", "b">> \o word \o <<"\\", "w", "*">>
    ELSE IF boundary = "end" THEN <<"\\", "w", "*">> \o word \o <<"\\", "b">>
    ELSE IF boundary = "true" THEN <<"\\", "b">> \o word \o <<"\\", "b">>
    ELSE word

\* faulty variant of pattern: no test of word.trim()
pattern_noTrim(word, boundary) ==
    IF boundary = "false" THEN word
    ELSE IF boundary = "start" THEN <<"\\", "b">> \o word \o <<"\\", "w", "+">>
    ELSE IF boundary = "end" THEN <<"\\", "w", "+">> \o word \o <<"\\", "b">>
    ELSE IF boundary = "true" THEN <<"\\", "b">> \o word \o <<"\\", "b">>
    ELSE word

\* pattern(word, boundary); boundary is "true", "false", "start" or "end"
pattern(word, boundary) ==
    IF IsBlank(word) \/ boundary = "false" THEN word
    ELSE IF boundary = "start" THEN <<"\\", "b">> \o word \o <<"\\", "w", "+">>
    ELSE IF boundary = "end" THEN <<"\\", "w", "+">> \o word \o <<"\\", "b">>
    ELSE IF boundary = "true" THEN <<"\\", "b">> \o word \o <<"\\", "b">>
    ELSE word

\* ------------------------------------------------------------------ RegExp
\* The part of the host's RegExp the library drives: `new RegExp(source,
\* flags)`, `exec` and `lastIndex`, for the pattern syntax that the terms of
\* Vocabulary, escapeRegex and pattern can produce: literal characters,
\* identity escapes (\*), the class \w, the assertion \b, the wildcard . and
\* the greedy quantifiers * and +.

\* \w
IsWordChar(c) == c \in {"a", "A", "b", "w", "_"}

\* Canonicalize of the i flag (upper-casing)
Canonicalize(c) ==
    CASE c = "a" -> "A"
      [] c = "b" -> "B"
      [] c = "w" -> "W"
      [] OTHER -> c

Atom(kind, ch) == [kind |-> kind, ch |-> ch, quant |-> "1"]

\* the parser of `new RegExp(source)`: [ok, atoms]; ok = FALSE is the
\* SyntaxError the constructor throws
RECURSIVE parseFrom(_, _, _)
parseFrom(source, i, atoms) ==
    IF i > Len(source) THEN [ok |-> TRUE, atoms |-> atoms]
    ELSE LET c == source[i] IN
      CASE c = "\\" ->
             IF i = Len(source) THEN [ok |-> FALSE, atoms |-> <<>>]
             ELSE IF source[i + 1] = "b"
                  THEN parseFrom(source, i + 2, Append(atoms, Atom("boundary", "")))
             ELSE IF source[i + 1] = "w"
                  THEN parseFrom(source, i + 2, Append(atoms, Atom("word", "")))
             ELSE parseFrom(source, i + 2, Append(atoms, Atom("char", source[i + 1])))
        [] c \in {"*", "+"} ->
             IF atoms = <<>>
                \/ atoms[Len(atoms)].quant # "1"
                \/ atoms[Len(atoms)].kind = "boundary"
             THEN [ok |-> FALSE, atoms |-> <<>>]
             ELSE parseFrom(source, i + 1,
                            [atoms EXCEPT ![Len(atoms)].quant = c])
        [] c = "." -> parseFrom(source, i + 1, Append(atoms, Atom("any", "")))
        [] c \notin Specials ->
             parseFrom(source, i + 1, Append(atoms, Atom("char", c)))

parse(source) == parseFrom(source, 1, <<>>)

\* the number of code units of the character at 0-based position pos
CharLen(text, unicode, pos) ==
    IF unicode /\ pos + 2 <= Len(text)
       /\ text[pos + 1] = "H" /\ text[pos + 2] = "L"
    THEN 2 ELSE 1

\* the code units atom a consumes at pos; 0 when it does not match there
Consumes(text, ignoreCase, unicode, a, pos) ==
    IF pos >= Len(text) THEN 0
    ELSE LET c == text[pos + 1] IN
      CASE a.kind = "any" -> CharLen(text, unicode, pos)
        [] a.kind = "word" -> IF IsWordChar(c) THEN 1 ELSE 0
        [] a.kind = "char" ->
             IF c = a.ch \/ (ignoreCase /\ Canonicalize(c) = Canonicalize(a.ch))
             THEN 1 ELSE 0

\* \b at pos
IsWordBoundary(text, pos) ==
    LET before == pos > 0 /\ IsWordChar(text[pos])
        after == pos < Len(text) /\ IsWordChar(text[pos + 1])
    IN before # after

\* the backtracking matcher: the end of the match of atoms k.. at pos, or -1.
\* count is the number of repetitions of atom k already taken.
RECURSIVE matchAtoms(_, _, _, _, _, _, _)
matchAtoms(text, ignoreCase, unicode, atoms, k, pos, count) ==
    IF k > Len(atoms) THEN pos
    ELSE LET a == atoms[k]
             n == IF a.kind = "boundary" THEN 0
                  ELSE Consumes(text, ignoreCase, unicode, a, pos)
             rest == matchAtoms(text, ignoreCase, unicode, atoms, k + 1, pos, 0)
         IN
      IF a.kind = "boundary"
      THEN IF IsWordBoundary(text, pos) THEN rest ELSE -1
      ELSE IF a.quant = "1"
      THEN IF n > 0
           THEN matchAtoms(text, ignoreCase, unicode, atoms, k + 1, pos + n, 0)
           ELSE -1
      ELSE LET more == IF n > 0
                       THEN matchAtoms(text, ignoreCase, unicode, atoms, k,
                                       pos + n, count + 1)
                       ELSE -1
               enough == count >= (IF a.quant = "+" THEN 1 ELSE 0)
           IN IF more # -1 THEN more
              ELSE IF enough THEN rest
              ELSE -1

\* new RegExp(source, flags) for the text it is going to be run on:
\* table[i] is the end of the match that starts at position i, or -1
RegExp(source, flags, text) ==
    LET ast == parse(source)
        ignoreCase == flags = "gi"
        unicode == flags = "gu"
    IN [ok |-> ast.ok,
        flags |-> flags,
        lastIndex |-> 0,
        table |-> IF ast.ok
                  THEN [i \in 0..Len(text) |->
                          matchAtoms(text, ignoreCase, unicode, ast.atoms, 1, i, 0)]
                  ELSE [i \in 0..Len(text) |-> -1]]

\* whether position p splits an astral character
InPair(text, p) ==
    p >= 1 /\ p < Len(text) /\ text[p] = "H" /\ text[p + 1] = "L"

\* the first position at or after s, stepping by characters, where the
\* pattern matches; -1 when there is none
RECURSIVE findFrom(_, _, _)
findFrom(regex, text, s) ==
    IF s > Len(text) THEN -1
    ELSE IF regex.table[s] # -1 THEN s
    ELSE findFrom(regex, text, s + CharLen(text, regex.flags = "gu", s))

\* regex.exec(text) of a global RegExp: the outcomes [found, index, end].
\* end is the new lastIndex; no match resets lastIndex to 0.  With the u
\* flag a lastIndex that splits an astral character is matched from the
\* start of that character; the index reported for a match found there is
\* the start of the character (the engine steps back) or lastIndex itself
\* (the letter of RegExpBuiltinExec): both are modelled.
exec(regex, text) ==
    LET p == regex.lastIndex
        split == regex.flags = "gu" /\ InPair(text, p)
        s == IF p > Len(text) THEN -1
             ELSE findFrom(regex, text, IF split THEN p - 1 ELSE p)
    IN IF s = -1 THEN { [found |-> FALSE, index |-> 0, end |-> 0] }
       ELSE { [found |-> TRUE, index |-> i, end |-> regex.table[s]] :
                i \in IF split /\ s = p - 1 THEN {s, p} ELSE {s} }

\* ------------------------------------------------------------------ state
VARIABLES
    pc,          \* position of the call being modelled
    text,        \* first argument of slicing / sliceText
    searchWords, \* second argument
    options,     \* third argument
    words,       \* Array.from(new Set(searchWords)).filter(word => !!word)
    wi,          \* 1-based index in words of the word the reducer is at
    regex,       \* the RegExp of the current word, with its lastIndex
    matched,     \* what the last regex.exec(text) returned
    thrown,      \* the error the call has thrown, or "none"
    slices,      \* span list: argument of mergeOverlap / output of slicing
    textLength,  \* second argument of fillSliceGaps
    merged,      \* mergeOverlap(slices)
    remerged,    \* mergeOverlap(merged)
    result,      \* output of fillSliceGaps
    calls,       \* the words match has been called with, in call order
    first,       \* what an earlier call on the same text returned
    lastIndexes, \* lastIndex of the RegExp a caching match function keeps
                 \* for each word
    fnWord,      \* argument of escapeRegex (string) / of pattern (word)
    fnBoundary,  \* second argument of pattern (boundary)
    returned     \* what escapeRegex / pattern returned

vars == <<pc, text, searchWords, options, words, wi, regex, matched, thrown,
          slices, textLength, merged, remerged, result, calls, first,
          lastIndexes, fnWord, fnBoundary, returned>>

\* the arguments and the return value of a direct call of escapeRegex or
\* pattern
fnsVars == <<fnWord, fnBoundary, returned>>

callVars == <<text, searchWords, options, words, wi, regex, matched, thrown,
              calls, first>>

\* null, as regex.exec returns it
NoMatch == [found |-> FALSE, index |-> 0, end |-> 0]

NoRegex == [ok |-> FALSE, flags |-> "", lastIndex |-> 0, table |-> <<>>]

NoOptions == [kind |-> "undefined", escape |-> "undefined",
              boundary |-> "undefined", caseSensitive |-> "undefined",
              flags |-> "", shared |-> FALSE]

\* no earlier call
NoFirst == [taken |-> FALSE, searchWords |-> <<>>, slices |-> <<>>,
            result |-> <<>>]

\* the search terms of the calls: the empty string, a plain word, a word
\* that is a pattern matching the empty string, and a lone metacharacter
Vocabulary == { <<>>, <<"a">>, <<"a", "*">>, <<"*">> }

\* every RegExp a caching match function keeps is fresh
NoLastIndexes == [w \in Vocabulary |-> 0]

\* ---------------------------------------------- mergeOverlap / fillSliceGaps
\* spans a caller can hand to the exported functions: start <= end, all of
\* them with the same matched property m
SpanSet(m) == { [start |-> p[1], end |-> p[2], matched |-> m] :
                  p \in { q \in (0..MaxPos) \X (0..MaxPos) : q[1] <= q[2] } }

\* the span lists of at most n spans drawn from S
SeqsUpTo(S, n) == UNION { [1..k -> S] : k \in 0..n }

InitFns ==
    /\ pc = "fns"
    /\ text = <<>>
    /\ searchWords = <<>>
    /\ options = NoOptions
    /\ words = <<>>
    /\ wi = 0
    /\ regex = NoRegex
    /\ matched = NoMatch
    /\ thrown = "none"
    /\ \E m \in {"undefined", "true"} :
          slices \in SeqsUpTo(SpanSet(m), MaxSpans)
    /\ textLength = 0
    /\ merged = <<>>
    /\ remerged = <<>>
    /\ result = <<>>
    /\ calls = <<>>
    /\ first = NoFirst
    /\ lastIndexes = NoLastIndexes
    /\ fnWord = <<>>
    /\ fnBoundary = "false"
    /\ returned = <<>>

\* faulty variant of CallMerge: the argument is sorted in place (sort for
\* toSorted)
CallMerge_sortsInPlace ==
    /\ pc = "fns"
    /\ merged' = mergeOverlap(slices)
    /\ slices' = toSorted(slices)
    /\ pc' = "merged"
    /\ UNCHANGED <<callVars, textLength, remerged, result,
                   lastIndexes, fnsVars>>

\* mergeOverlap(slices)
CallMerge ==
    /\ pc = "fns"
    /\ merged' = mergeOverlap(slices)
    /\ pc' = "merged"
    /\ UNCHANGED <<callVars, slices, textLength, remerged, result,
                   lastIndexes, fnsVars>>

\* mergeOverlap(mergeOverlap(slices))
CallMergeAgain ==
    /\ pc = "merged"
    /\ remerged' = mergeOverlap(merged)
    /\ pc' = "remerged"
    /\ UNCHANGED <<callVars, slices, textLength, merged, result,
                   lastIndexes, fnsVars>>

\* fillSliceGaps(mergeOverlap(slices), textLength)
CallFillMerged ==
    /\ pc = "remerged"
    /\ \E n \in 0..MaxPos :
          /\ textLength' = n
          /\ result' = fillSliceGaps(merged, n)
    /\ pc' = "filledMerged"
    /\ UNCHANGED <<callVars, slices, merged, remerged, lastIndexes, fnsVars>>

\* fillSliceGaps(slices, textLength)
CallFill ==
    /\ pc = "fns"
    /\ \E n \in 0..MaxPos :
          /\ textLength' = n
          /\ result' = fillSliceGaps(slices, n)
    /\ pc' = "filled"
    /\ UNCHANGED <<callVars, slices, merged, remerged, lastIndexes, fnsVars>>

NextFns == CallMerge \/ CallMergeAgain \/ CallFillMerged \/ CallFill

SpecFns == InitFns /\ [][NextFns]_vars

\* ------------------------------------------------------ escapeRegex / pattern
\* the characters of the strings: the sixteen of the class of escapeRegex, a
\* word character and a space
Alphabet == Specials \cup {"a", " "}

InitStrings ==
    /\ pc = "strings"
    /\ \E n \in 0..MaxString : fnWord \in [1..n -> Alphabet]
    /\ fnBoundary = "false"
    /\ returned = <<>>
    /\ text = <<>>
    /\ searchWords = <<>>
    /\ options = NoOptions
    /\ words = <<>>
    /\ wi = 0
    /\ regex = NoRegex
    /\ matched = NoMatch
    /\ thrown = "none"
    /\ slices = <<>>
    /\ textLength = 0
    /\ merged = <<>>
    /\ remerged = <<>>
    /\ result = <<>>
    /\ calls = <<>>
    /\ first = NoFirst
    /\ lastIndexes = NoLastIndexes

\* escapeRegex(string)
CallEscapeRegex ==
    /\ pc = "strings"
    /\ returned' = escapeRegex(fnWord)
    /\ pc' = "escaped"
    /\ UNCHANGED <<callVars, slices, textLength, merged, remerged, result,
                   lastIndexes, fnWord, fnBoundary>>

\* pattern(word, boundary)
CallPattern ==
    /\ pc = "strings"
    /\ fnBoundary' \in {"true", "false", "start", "end"}
    /\ returned' = pattern(fnWord, fnBoundary')
    /\ pc' = "patterned"
    /\ UNCHANGED <<callVars, slices, textLength, merged, remerged, result,
                   lastIndexes, fnWord>>

NextStrings == CallEscapeRegex \/ CallPattern

SpecStrings == InitStrings /\ [][NextStrings]_vars

\* ------------------------------------------------------ slicing / sliceText
\* an options object literal
Config(escape, boundary, caseSensitive) ==
    [kind |-> "object", escape |-> escape, boundary |-> boundary,
     caseSensitive |-> caseSensitive, flags |-> "", shared |-> FALSE]

\* the custom match function (word) => new RegExp(word, flags)
Custom(flags) ==
    [kind |-> "function", escape |-> "undefined", boundary |-> "undefined",
     caseSensitive |-> "undefined", flags |-> flags, shared |-> FALSE]

\* a match function that builds the RegExp of a word once and hands out that
\* same object whenever it is called with the word again:
\* (word) => cache[word] ??= new RegExp(word, flags)
Shared(flags) == [Custom(flags) EXCEPT !.shared = TRUE]

\* the default value of the options parameter
DefaultOptions == Config("true", "true", "false")

\* the options values of the calls: omitted, null, the option objects the
\* test-suite passes, and match functions building a global RegExp with no
\* other flag, with i and with u
OptionValues ==
    { NoOptions,
      [NoOptions EXCEPT !.kind = "null"],
      Config("undefined", "undefined", "undefined"),
      Config("false", "false", "false"),
      Config("true", "undefined", "undefined"),
      Config("undefined", "true", "undefined"),
      Config("undefined", "start", "undefined"),
      Config("undefined", "end", "undefined"),
      Config("undefined", "undefined", "true"),
      Custom("g"), Custom("gi"), Custom("gu") }

\* the code units of the texts: astral characters are told apart from
\* other non-word characters by a RegExp with the u flag only
TextUnits(opts) ==
    IF opts.flags = "gu" THEN {"a", "H", "L"} ELSE {"a", "A", "*"}

\* faulty variant of unique: a word seen before is kept
RECURSIVE unique_keepAll(_, _)
unique_keepAll(list, seen) ==
    IF list = <<>> THEN seen
    ELSE unique_keepAll(Tail(list), Append(seen, list[1]))

\* new Set(searchWords), in insertion order
RECURSIVE unique(_, _)
unique(list, seen) ==
    IF list = <<>> THEN seen
    ELSE unique(Tail(list),
                IF \E i \in 1..Len(seen) : seen[i] = list[1]
                THEN seen ELSE Append(seen, list[1]))

\* .filter(word => !!word)
RECURSIVE nonEmpty(_)
nonEmpty(list) ==
    IF list = <<>> THEN <<>>
    ELSE (IF list[1] = <<>> THEN <<>> ELSE <<list[1]>>) \o nonEmpty(Tail(list))

\* faulty variant of match: omitted options are taken as the empty
\* options object, not as the default value of the parameter
match_noDefault(opts, word, txt) ==
    LET o == IF opts.kind = "undefined"
             THEN Config("undefined", "undefined", "undefined") ELSE opts
        escaped == IF o.escape = "true" THEN escapeRegex(word) ELSE word
        bounded == IF o.boundary \in {"true", "start", "end"}
                   THEN pattern(escaped, o.boundary) ELSE escaped
        made == IF o.kind = "function" THEN RegExp(word, o.flags, txt)
                ELSE RegExp(bounded,
                            IF o.caseSensitive = "true" THEN "g" ELSE "gi", txt)
    IN IF o.kind = "null" THEN [thrown |-> "TypeError", regex |-> NoRegex]
       ELSE IF ~made.ok THEN [thrown |-> "SyntaxError", regex |-> NoRegex]
       ELSE [thrown |-> "none", regex |-> made]

\* faulty variant of match: a field the options object omits takes the
\* value it has in the default options
match_mergedDefaults(opts, word, txt) ==
    LET o == IF opts.kind = "undefined" THEN DefaultOptions ELSE opts
        escaped == IF o.escape \in {"true", "undefined"} THEN escapeRegex(word) ELSE word
        bounded == IF o.boundary \in {"true", "start", "end", "undefined"}
                   THEN pattern(escaped, IF o.boundary = "undefined" THEN "true" ELSE o.boundary) ELSE escaped
        made == IF o.kind = "function" THEN RegExp(word, o.flags, txt)
                ELSE RegExp(bounded,
                            IF o.caseSensitive = "true" THEN "g" ELSE "gi", txt)
    IN IF o.kind = "null" THEN [thrown |-> "TypeError", regex |-> NoRegex]
       ELSE IF ~made.ok THEN [thrown |-> "SyntaxError", regex |-> NoRegex]
       ELSE [thrown |-> "none", regex |-> made]

\* faulty variant of match: the boundary is applied unless it is
\* false (options.boundary !== false)
match_boundaryUnlessFalse(opts, word, txt) ==
    LET o == IF opts.kind = "undefined" THEN DefaultOptions ELSE opts
        escaped == IF o.escape = "true" THEN escapeRegex(word) ELSE word
        bounded == IF o.boundary # "false"
                   THEN pattern(escaped, IF o.boundary = "undefined" THEN "true" ELSE o.boundary) ELSE escaped
        made == IF o.kind = "function" THEN RegExp(word, o.flags, txt)
                ELSE RegExp(bounded,
                            IF o.caseSensitive = "true" THEN "g" ELSE "gi", txt)
    IN IF o.kind = "null" THEN [thrown |-> "TypeError", regex |-> NoRegex]
       ELSE IF ~made.ok THEN [thrown |-> "SyntaxError", regex |-> NoRegex]
       ELSE [thrown |-> "none", regex |-> made]

\* faulty variant of match: the word given to a match function is
\* escaped first
match_customEscaped(opts, word, txt) ==
    LET o == IF opts.kind = "undefined" THEN DefaultOptions ELSE opts
        escaped == IF o.escape = "true" THEN escapeRegex(word) ELSE word
        bounded == IF o.boundary \in {"true", "start", "end"}
                   THEN pattern(escaped, o.boundary) ELSE escaped
        made == IF o.kind = "function" THEN RegExp(escapeRegex(word), o.flags, txt)
                ELSE RegExp(bounded,
                            IF o.caseSensitive = "true" THEN "g" ELSE "gi", txt)
    IN IF o.kind = "null" THEN [thrown |-> "TypeError", regex |-> NoRegex]
       ELSE IF ~made.ok THEN [thrown |-> "SyntaxError", regex |-> NoRegex]
       ELSE [thrown |-> "none", regex |-> made]

\* faulty variant of match: the term is escaped after the anchors are added
match_escapeAfterBoundary(opts, word, txt) ==
    LET o == IF opts.kind = "undefined" THEN DefaultOptions ELSE opts
        bounded == IF o.boundary \in {"true", "start", "end"}
                   THEN pattern(word, o.boundary) ELSE word
        escaped == IF o.escape = "true" THEN escapeRegex(bounded) ELSE bounded
        made == IF o.kind = "function" THEN RegExp(word, o.flags, txt)
                ELSE RegExp(escaped,
                            IF o.caseSensitive = "true" THEN "g" ELSE "gi", txt)
    IN IF o.kind = "null" THEN [thrown |-> "TypeError", regex |-> NoRegex]
       ELSE IF ~made.ok THEN [thrown |-> "SyntaxError", regex |-> NoRegex]
       ELSE [thrown |-> "none", regex |-> made]

\* match(word): [thrown, regex]
match(opts, word, txt) ==
    LET o == IF opts.kind = "undefined" THEN DefaultOptions ELSE opts
        escaped == IF o.escape = "true" THEN escapeRegex(word) ELSE word
        bounded == IF o.boundary \in {"true", "start", "end"}
                   THEN pattern(escaped, o.boundary) ELSE escaped
        made == IF o.kind = "function" THEN RegExp(word, o.flags, txt)
                ELSE RegExp(bounded,
                            IF o.caseSensitive = "true" THEN "g" ELSE "gi", txt)
    IN IF o.kind = "null" THEN [thrown |-> "TypeError", regex |-> NoRegex]
       ELSE IF ~made.ok THEN [thrown |-> "SyntaxError", regex |-> NoRegex]
       ELSE [thrown |-> "none", regex |-> made]

\* no call has been made yet
Init ==
    /\ pc = "idle"
    /\ options = NoOptions
    /\ text = <<>>
    /\ searchWords = <<>>
    /\ words = <<>>
    /\ wi = 0
    /\ regex = NoRegex
    /\ matched = NoMatch
    /\ thrown = "none"
    /\ slices = <<>>
    /\ textLength = 0
    /\ merged = <<>>
    /\ remerged = <<>>
    /\ result = <<>>
    /\ calls = <<>>
    /\ first = NoFirst
    /\ lastIndexes = NoLastIndexes
    /\ fnWord = <<>>
    /\ fnBoundary = "false"
    /\ returned = <<>>

\* sliceText(text, searchWords, options) is called, options being one of
\* optionValues
CallWith(optionValues) ==
    /\ pc = "idle"
    /\ options' \in optionValues
    /\ \E n \in 0..MaxText : text' \in [1..n -> TextUnits(options')]
    /\ searchWords' \in SeqsUpTo(Vocabulary, MaxWords)
    /\ pc' = "call"
    /\ UNCHANGED <<words, wi, regex, matched, thrown, slices, textLength,
                   merged, remerged, result, calls, first,
                   lastIndexes, fnsVars>>

Call == CallWith(OptionValues)

\* every options object: each field omitted or set to one of its values
AllConfigs ==
    { Config(e, b, c) : e \in {"undefined", "true", "false"},
                        b \in {"undefined", "true", "false", "start", "end"},
                        c \in {"undefined", "true", "false"} }

\* every shape of the third argument
AllOptionValues ==
    { NoOptions, [NoOptions EXCEPT !.kind = "null"] } \cup AllConfigs
        \cup { Custom("g"), Custom("gi"), Custom("gu") }

\* the terms of the single-term calls: two words, a word followed by a
\* metacharacter, a lone metacharacter and a whitespace-only term
Terms == { <<"a">>, <<"a", "a">>, <<"a", "*">>, <<"*">>, <<" ">> }

\* the code units of their texts
TermUnits == {"a", "A", "*", " "}

\* sliceText(text, [term], options), for every shape of options
CallOneTerm ==
    /\ pc = "idle"
    /\ options' \in AllOptionValues
    /\ \E n \in 0..MaxText : text' \in [1..n -> TermUnits]
    /\ \E term \in Terms : searchWords' = <<term>>
    /\ pc' = "call"
    /\ UNCHANGED <<words, wi, regex, matched, thrown, slices, textLength,
                   merged, remerged, result, calls, first,
                   lastIndexes, fnsVars>>

\* the options values under which a term is compiled unescaped, so that the
\* matcher can report zero-width occurrences
RawOptionValues ==
    { Config("false", "false", "false"), Custom("g"), Custom("gu") }

CallRaw == CallWith(RawOptionValues)

\* slicing is entered: the word list is deduplicated and filtered, the
\* reducer starts with no slices
SlicingStart ==
    /\ pc = "call"
    /\ words' = nonEmpty(unique(searchWords, <<>>))
    /\ wi' = 1
    /\ slices' = <<>>
    /\ calls' = <<>>
    /\ pc' = "reduce"
    /\ UNCHANGED <<text, searchWords, options, regex, matched, thrown,
                   textLength, merged, remerged, result, first,
                   lastIndexes, fnsVars>>

\* faulty variant of ReduceWord: a word whose matcher cannot be built is
\* skipped
ReduceWord_skipFailing ==
    /\ pc = "reduce"
    /\ wi <= Len(words)
    /\ LET m == match(options, words[wi], text) IN
         /\ thrown' = "none"
         /\ regex' = IF options.shared
                     THEN [m.regex EXCEPT !.lastIndex = lastIndexes[words[wi]]]
                     ELSE m.regex
         /\ pc' = IF m.thrown = "none" THEN "exec" ELSE "reduce"
         /\ wi' = IF m.thrown = "none" THEN wi ELSE wi + 1
    /\ calls' = Append(calls, words[wi])
    /\ UNCHANGED <<text, searchWords, options, words, matched, slices,
                   textLength, merged, remerged, result, first,
                   lastIndexes, fnsVars>>

\* the reducer is called for the next word: const regex = match(word)
ReduceWord ==
    /\ pc = "reduce"
    /\ wi <= Len(words)
    /\ LET m == match(options, words[wi], text) IN
         /\ thrown' = m.thrown
         /\ regex' = IF options.shared
                     THEN [m.regex EXCEPT !.lastIndex = lastIndexes[words[wi]]]
                     ELSE m.regex
         /\ pc' = IF m.thrown = "none" THEN "exec" ELSE "threw"
    /\ calls' = Append(calls, words[wi])
    /\ UNCHANGED <<text, searchWords, options, words, wi, matched, slices,
                   textLength, merged, remerged, result, first,
                   lastIndexes, fnsVars>>

\* faulty variant of ExecCall: a find that reports no occurrence leaves the
\* cursor where it was
ExecCall_keepsCursor ==
    /\ pc = "exec"
    /\ \E m \in exec(regex, text) :
         LET cursor == IF m.found THEN m.end ELSE regex.lastIndex IN
         /\ matched' = m
         /\ regex' = [regex EXCEPT !.lastIndex = cursor]
         /\ lastIndexes' = IF options.shared
                           THEN [lastIndexes EXCEPT ![words[wi]] = cursor]
                           ELSE lastIndexes
         /\ pc' = IF m.found THEN "body" ELSE "reduce"
         /\ wi' = IF m.found THEN wi ELSE wi + 1
    /\ UNCHANGED <<text, searchWords, options, words, thrown, slices,
                   textLength, merged, remerged, result, calls, first,
                   fnsVars>>

\* the while condition `matched = regex.exec(text)`: exec moves lastIndex to
\* the end of the occurrence it found, or back to 0 when it found none and
\* the reducer returns
ExecCall ==
    /\ pc = "exec"
    /\ \E m \in exec(regex, text) :
         /\ matched' = m
         /\ regex' = [regex EXCEPT !.lastIndex = m.end]
         /\ lastIndexes' = IF options.shared
                           THEN [lastIndexes EXCEPT ![words[wi]] = m.end]
                           ELSE lastIndexes
         /\ pc' = IF m.found THEN "body" ELSE "reduce"
         /\ wi' = IF m.found THEN wi ELSE wi + 1
    /\ UNCHANGED <<text, searchWords, options, words, thrown, slices,
                   textLength, merged, remerged, result, calls, first,
                   fnsVars>>

\* faulty variant of LoopBody: a span some term has already given is not
\* pushed again
LoopBody_dedup ==
    /\ pc = "body"
    /\ LET start == matched.index
           end == regex.lastIndex
       IN /\ slices' = IF end > start
                          /\ \A k \in 1..Len(slices) : slices[k] # Slice(start, end)
                       THEN Append(slices, Slice(start, end))
                       ELSE slices
          /\ regex' = IF start = end
                      THEN [regex EXCEPT !.lastIndex = regex.lastIndex + 1]
                      ELSE regex
          /\ lastIndexes' = IF options.shared /\ start = end
                            THEN [lastIndexes EXCEPT
                                    ![words[wi]] = regex.lastIndex + 1]
                            ELSE lastIndexes
    /\ pc' = "exec"
    /\ UNCHANGED <<text, searchWords, options, words, wi, matched, thrown,
                   textLength, merged, remerged, result, calls, first,
                   fnsVars>>

\* faulty variant of LoopBody: the occurrence is pushed without the test
\* end > start
LoopBody_noGuard ==
    /\ pc = "body"
    /\ LET start == matched.index
           end == regex.lastIndex
       IN /\ slices' = Append(slices, Slice(start, end))
          /\ regex' = IF start = end
                      THEN [regex EXCEPT !.lastIndex = regex.lastIndex + 1]
                      ELSE regex
          /\ lastIndexes' = IF options.shared /\ start = end
                            THEN [lastIndexes EXCEPT
                                    ![words[wi]] = regex.lastIndex + 1]
                            ELSE lastIndexes
    /\ pc' = "exec"
    /\ UNCHANGED <<text, searchWords, options, words, wi, matched, thrown,
                   textLength, merged, remerged, result, calls, first,
                   fnsVars>>

\* the body of the while loop
LoopBody ==
    /\ pc = "body"
    /\ LET start == matched.index
           end == regex.lastIndex
       IN /\ slices' = IF end > start THEN Append(slices, Slice(start, end))
                       ELSE slices
          /\ regex' = IF start = end
                      THEN [regex EXCEPT !.lastIndex = regex.lastIndex + 1]
                      ELSE regex
          /\ lastIndexes' = IF options.shared /\ start = end
                            THEN [lastIndexes EXCEPT
                                    ![words[wi]] = regex.lastIndex + 1]
                            ELSE lastIndexes
    /\ pc' = "exec"
    /\ UNCHANGED <<text, searchWords, options, words, wi, matched, thrown,
                   textLength, merged, remerged, result, calls, first,
                   fnsVars>>

\* the reducer has seen every word: slicing returns and sliceText passes its
\* result through mergeOverlap and fillSliceGaps
SliceTextReturn ==
    /\ pc = "reduce"
    /\ wi > Len(words)
    /\ merged' = mergeOverlap(slices)
    /\ textLength' = Len(text)
    /\ result' = fillSliceGaps(mergeOverlap(slices), Len(text))
    /\ pc' = "done"
    /\ UNCHANGED <<callVars, slices, remerged, lastIndexes, fnsVars>>

\* the surviving terms of a term list: every non-empty term once, at the
\* place of its first appearance
Survivors(list) ==
    LET kept == { i \in 1..Len(list) :
                    /\ list[i] # <<>>
                    /\ \A j \in 1..(i - 1) : list[j] # list[i] }
        n == Cardinality(kept)
        at == CHOOSE f \in [1..n -> kept] :
                 \A a, b \in 1..n : a < b => f[a] < f[b]
    IN [k \in 1..n |-> list[at[k]]]

\* after a call has returned, the caller calls again with the same text and
\* options and with the term list stripped of its empty strings and of its
\* later duplicates
CallCleaned ==
    /\ pc = "done"
    /\ ~first.taken
    /\ first' = [taken |-> TRUE, searchWords |-> searchWords, slices |-> slices,
                 result |-> result]
    /\ searchWords' = Survivors(searchWords)
    /\ pc' = "call"
    /\ UNCHANGED <<text, options, words, wi, regex, matched, thrown, slices,
                   textLength, merged, remerged, result, calls,
                   lastIndexes, fnsVars>>

\* the match functions that hand out one RegExp object per word
SharedOptionValues == { Shared("g"), Shared("gi"), Shared("gu") }

CallShared == CallWith(SharedOptionValues)

\* the call has returned and is made again with the same text, the same
\* terms and the same match function
CallAgain ==
    /\ pc = "done"
    /\ ~first.taken
    /\ first' = [taken |-> TRUE, searchWords |-> searchWords, slices |-> slices,
                 result |-> result]
    /\ pc' = "call"
    /\ UNCHANGED <<text, searchWords, options, words, wi, regex, matched,
                   thrown, slices, textLength, merged, remerged, result,
                   calls, lastIndexes, fnsVars>>

NextShared == CallShared \/ SlicingStart \/ ReduceWord \/ ExecCall \/ LoopBody
              \/ SliceTextReturn \/ CallAgain

SpecShared == Init /\ [][NextShared]_vars

\* the options values of the calls that are made again with the terms
\* rearranged: omitted, terms read as patterns, terms read as literals
\* anywhere, and a match function handing out one RegExp object per word
RearrangedOptionValues ==
    { NoOptions, Config("false", "false", "false"),
      Config("true", "false", "false"), Shared("g") }

CallToRearrange == CallWith(RearrangedOptionValues)

\* the term lists got from a list by reordering it, by repeating one of its
\* terms, or by adding an empty string
Rearrangements(list) ==
    LET n == Len(list)
        added(k, term) == SubSeq(list, 1, k) \o <<term>> \o SubSeq(list, k + 1, n)
    IN { [i \in 1..n |-> list[p[i]]] :
            p \in { q \in [1..n -> 1..n] :
                      \A i, j \in 1..n : q[i] = q[j] => i = j } }
       \cup { added(k, list[i]) : k \in 0..n, i \in 1..n }
       \cup { added(k, <<>>) : k \in 0..n }

\* the call has returned and is made again with the same text and options
\* and a rearranged term list
CallRearranged ==
    /\ pc = "done"
    /\ ~first.taken
    /\ first' = [taken |-> TRUE, searchWords |-> searchWords, slices |-> slices,
                 result |-> result]
    /\ searchWords' \in Rearrangements(searchWords)
    /\ pc' = "call"
    /\ UNCHANGED <<text, options, words, wi, regex, matched, thrown, slices,
                   textLength, merged, remerged, result, calls,
                   lastIndexes, fnsVars>>

NextRearranged == CallToRearrange \/ SlicingStart \/ ReduceWord \/ ExecCall
                  \/ LoopBody \/ SliceTextReturn \/ CallRearranged

SpecRearranged == Init /\ [][NextRearranged]_vars

Next == Call \/ SlicingStart \/ ReduceWord \/ ExecCall \/ LoopBody \/ SliceTextReturn
        \/ CallCleaned

Spec == Init /\ [][Next]_vars

NextOptions == CallOneTerm \/ SlicingStart \/ ReduceWord \/ ExecCall \/ LoopBody
               \/ SliceTextReturn

SpecOptions == Init /\ [][NextOptions]_vars

\* the calls of sliceText together with the direct calls of mergeOverlap and
\* fillSliceGaps
SpecAll == (Init \/ InitFns) /\ [][Next \/ NextFns]_vars

\* calls with unescaped terms, run to the end: the code is synchronous, so a
\* step that can be taken is taken
NextRaw == CallRaw \/ SlicingStart \/ ReduceWord \/ ExecCall \/ LoopBody
           \/ SliceTextReturn

FairSpec == Init /\ [][NextRaw]_vars /\ WF_vars(NextRaw)

\* ------------------------------------------------------------- properties
\* the indices a span list covers
Covered(spans) ==
    { i \in 0..(MaxPos + 1) : \E k \in 1..Len(spans) :
                                 spans[k].start <= i /\ i < spans[k].end }

\* the (start, end) pairs of a span list, in order
Bounds(spans) == [k \in 1..Len(spans) |-> <<spans[k].start, spans[k].end>>]

RECURSIVE SumLen(_, _)
SumLen(spans, i) ==
    IF i > Len(spans) THEN 0
    ELSE (spans[i].end - spans[i].start) + SumLen(spans, i + 1)

Contiguous(spans) ==
    \A i \in 1..(Len(spans) - 1) : spans[i].end = spans[i + 1].start

\* a total ordered partition of [0, n): contiguous from 0 to n, no empty span
Partition(spans, n) ==
    /\ Len(spans) > 0
    /\ spans[1].start = 0
    /\ spans[Len(spans)].end = n
    /\ Contiguous(spans)

\* sorted ascending and non-overlapping as half-open ranges, inside [0, n)
SortedDisjointWithin(spans, n) ==
    /\ \A i \in 1..Len(spans) : 0 <= spans[i].start /\ spans[i].end <= n
    /\ \A i \in 1..(Len(spans) - 1) : spans[i].end <= spans[i + 1].start

NonEmptySpans(spans) == \A i \in 1..Len(spans) : spans[i].start < spans[i].end

Returned == pc = "done"

Finished == pc \in {"done", "threw"}

\* text.slice(start, end) of every span, concatenated in order
RECURSIVE Rebuild(_, _)
Rebuild(spans, i) ==
    IF i > Len(spans) THEN <<>>
    ELSE (IF spans[i].start < spans[i].end
          THEN SubSeq(text, spans[i].start + 1, spans[i].end) ELSE <<>>)
         \o Rebuild(spans, i + 1)

\* C1: the output of sliceText is an ordered partition of [0, text.length):
\* no empty span, the first span starts at 0, each next span starts where the
\* previous one ended, the last ends at text.length (no span at all for the
\* empty text), and the slices of the text concatenate to the text.
C1_SliceTextPartition ==
    Returned
        => /\ NonEmptySpans(result)
           /\ IF text = <<>> THEN result = <<>>
              ELSE Partition(result, Len(text))
           /\ Rebuild(result, 1) = text

C1_Witness ==
    /\ Returned
    /\ Len(result) = 3
    /\ result[2].matched = "true"
    /\ options.kind = "function"

\* the indices the spans with matched = m cover
CoveredBy(spans, m) ==
    { i \in 0..(Len(text) - 1) : \E k \in 1..Len(spans) :
          /\ spans[k].matched = m
          /\ spans[k].start <= i /\ i < spans[k].end }

\* C2: in the output of sliceText an index lies in a matched span exactly
\* when it lies in a raw span of slicing, every other index lies in an
\* unmatched span, and no two matched spans are adjacent.
C2_MatchedIffOccurrence ==
    Returned
        => /\ CoveredBy(result, "true") = CoveredBy(slices, "undefined")
           /\ CoveredBy(result, "false")
                  = (0..(Len(text) - 1)) \ CoveredBy(slices, "undefined")
           /\ \A k \in 1..(Len(result) - 1) :
                  ~(result[k].matched = "true" /\ result[k + 1].matched = "true")

C2_Witness ==
    /\ Returned
    /\ Len(words) = 2
    /\ Len(slices) = 2
    /\ slices[1].start = slices[2].start
    /\ slices[1].end > slices[2].end
    /\ Len(result) = 2
    /\ result[1].matched = "true"

\* C3: every call of slicing / sliceText comes to an end, by returning or by
\* throwing, whatever the text, the terms and the global matcher.
C3_Terminates == <>Finished

\* C3 for matchers without the u flag
C3_TerminatesNoUnicode == (pc = "call" /\ options.flags # "gu") ~> Finished

\* C9: no span slicing has emitted is zero-length, at any point of the scan.
C9_SlicingNoZeroLength ==
    pc \in {"call", "reduce", "exec", "body", "done", "threw"}
        => NonEmptySpans(slices)

C9_Witness ==
    /\ pc = "exec"
    /\ matched.found
    /\ matched.index = matched.end
    /\ regex.lastIndex = matched.end + 1
    /\ Len(slices) > 0

\* C4: for textLength > 0 and a span list that is sorted ascending,
\* non-overlapping (each span ends at or before the start of the next) and
\* inside [0, textLength), the output of fillSliceGaps starts at 0, ends at
\* textLength, is contiguous, and its span lengths sum to textLength.
C4_FillTotal ==
    (pc = "filled" /\ textLength > 0 /\ SortedDisjointWithin(slices, textLength))
        => /\ Partition(result, textLength)
           /\ SumLen(result, 1) = textLength

C4_Witness ==
    /\ pc = "filled"
    /\ textLength = 3
    /\ SortedDisjointWithin(slices, textLength)
    /\ Len(slices) = 2
    /\ Len(result) = 3

\* C5: the output of mergeOverlap is sorted by strictly ascending start, two
\* consecutive output spans are separated by a gap, and the output covers
\* exactly the indices the input covers.
C5_MergeMaximalDisjoint ==
    pc = "merged"
        => /\ \A i \in 1..(Len(merged) - 1) :
                 /\ merged[i].start < merged[i + 1].start
                 /\ merged[i].end < merged[i + 1].start
           /\ Covered(merged) = Covered(slices)

C5_Witness ==
    /\ pc = "merged"
    /\ Len(slices) = 3
    /\ Len(merged) = 2
    /\ slices[1].start > slices[2].start
    /\ \E i \in 1..3 : slices[i].end < merged[1].end /\ slices[i].start = merged[1].start

\* C6: mergeOverlap(mergeOverlap(S)) equals mergeOverlap(S) span for span.
C6_MergeIdempotent ==
    pc = "remerged" => remerged = merged

C6_Witness ==
    /\ pc = "remerged"
    /\ Len(slices) = 3
    /\ Len(merged) = 2
    /\ merged # slices

\* the rearrangements of a span list: every permutation of it, and the list
\* with one of its spans repeated (every span list is an input, so these
\* compose to every order and every repetition within the bounds)
Rearranged(spans) ==
    LET n == Len(spans)
    IN { [i \in 1..n |-> spans[f[i]]] : f \in Permutations(1..n) }
       \cup { Append(spans, spans[i]) : i \in 1..n }

\* C7: every permutation of the input of mergeOverlap, and every input with
\* some span repeated, gives the same starts and ends in the same order.
C7_MergeOrderIrrelevant ==
    pc = "merged"
        => \A t \in Rearranged(slices) : Bounds(mergeOverlap(t)) = Bounds(merged)

C7_Witness ==
    /\ pc = "merged"
    /\ Len(slices) = 3
    /\ slices[1].start > slices[2].start
    /\ slices[2].start > slices[3].start
    /\ Len(merged) = 2

Alternates(spans) ==
    \A i \in 1..(Len(spans) - 1) : spans[i].matched # spans[i + 1].matched


\* C8 as stated: fillSliceGaps given the output of mergeOverlap never emits
\* two adjacent spans with the same matched value.
C8_Original ==
    pc = "filledMerged" => Alternates(result)

\* C8 amended: the same, provided no span given to mergeOverlap is
\* zero-length.
C8_AlternatesNonEmpty ==
    (pc = "filledMerged" /\ NonEmptySpans(slices)) => Alternates(result)

C8_Witness ==
    /\ pc = "filledMerged"
    /\ NonEmptySpans(slices)
    /\ Len(merged) = 2
    /\ Len(result) = 3
    /\ result[1].matched = "true"

\* C10 as stated: the output of mergeOverlap holds no zero-length span.
C10_Original ==
    pc = "merged" => NonEmptySpans(merged)

\* C10 amended: a zero-length span {p, p} is in the output of mergeOverlap
\* only if the input holds {p, p} and no other input span touches p; given
\* non-empty spans only, the output holds no zero-length span.
C10_ZeroLengthOnlyIsolated ==
    pc = "merged"
        => \A j \in 1..Len(merged) :
             merged[j].start = merged[j].end
                 => /\ \E i \in 1..Len(slices) :
                          slices[i].start = merged[j].start
                          /\ slices[i].end = merged[j].start
                    /\ \A i \in 1..Len(slices) :
                          (slices[i].start <= merged[j].start
                           /\ merged[j].start <= slices[i].end)
                              => slices[i].start = slices[i].end

C10_Witness ==
    /\ pc = "merged"
    /\ Len(slices) = 3
    /\ \E i \in 1..3 : slices[i].start = slices[i].end
    /\ NonEmptySpans(merged)
    /\ Len(merged) = 2

\* C11: no span in the output of fillSliceGaps is zero-length, whatever the
\* span list (sorted or not, merged or not) and whatever textLength.
C11_FillNoZeroLength ==
    pc \in {"filled", "filledMerged"} => NonEmptySpans(result)

\* a match starting at 0, a second one exactly adjacent to it and ending at
\* textLength: no gap is emitted before, between or after them
C11_Witness ==
    /\ pc = "filled"
    /\ Len(slices) = 2
    /\ slices[1].start = 0
    /\ slices[1].end = slices[2].start
    /\ slices[2].end = textLength
    /\ NonEmptySpans(slices)
    /\ Len(result) = 2

\* ------------------------------------------------ properties of the matcher
\* the matcher of the word the reducer is at is in use
Scanning == pc \in {"exec", "body"}

SameIgnoringCase(c, d) == c = d \/ {c, d} = {"a", "A"}

\* the term stands in the text at position s, character for character
LiteralAt(txt, term, s, ignoreCase) ==
    /\ s + Len(term) <= Len(txt)
    /\ \A k \in 1..Len(term) :
          IF ignoreCase THEN SameIgnoringCase(txt[s + k], term[k])
          ELSE txt[s + k] = term[k]

\* for every position, the end of the literal occurrence of the term that
\* starts there, or -1; anchored asks for a word boundary on both sides
OccurrenceTable(txt, term, anchored, ignoreCase) ==
    [s \in 0..Len(txt) |->
        IF /\ LiteralAt(txt, term, s, ignoreCase)
           /\ anchored => /\ IsWordBoundary(txt, s)
                          /\ IsWordBoundary(txt, s + Len(term))
        THEN s + Len(term) ELSE -1]

\* the same for the term read as a pattern
PatternTable(txt, term, ignoreCase) ==
    RegExp(term, IF ignoreCase THEN "gi" ELSE "g", txt).table

C15_CustomMatcherVerbatim ==
    options.kind = "function"
        => /\ pc \in {"reduce", "exec", "body", "done", "threw"}
                => calls = SubSeq(words, 1, Len(calls))
           /\ pc = "done" => calls = words
           /\ Scanning
                => /\ calls[Len(calls)] = words[wi]
                   /\ regex.flags = options.flags
                   /\ regex.table = RegExp(words[wi], options.flags, text).table

\* (word) => new RegExp(word, 'g') with the terms a and a*: a is found inside
\* a word and in its own case only, a* is a pattern
C15_Witness ==
    /\ pc = "done"
    /\ options = Custom("g")
    /\ calls = << <<"a">>, <<"a", "*">> >>
    /\ text = <<"A", "a", "a">>
    /\ slices = <<Slice(1, 2), Slice(2, 3), Slice(1, 3)>>

\* C16: with null for options no error is raised and every term is matched
\* as with the empty options object.
C16_NullOptionsAccepted ==
    options.kind = "null"
        => /\ thrown = "none"
           /\ Scanning => regex.table = PatternTable(text, words[wi], TRUE)

\* ------------------------------------------------ properties of the scan
\* the non-empty occurrences a scan from position p reports for a matcher
\* with the given table: the leftmost occurrence at or after p, then the scan
\* goes on from its end (one further when it is empty)
RECURSIVE OccurrencesFrom(_, _, _)
OccurrencesFrom(table, n, p) ==
    LET found == { s \in p..n : table[s] # -1 } IN
    IF found = {} THEN <<>>
    ELSE LET s == CHOOSE x \in found : \A y \in found : x <= y
             e == table[s]
         IN IF e > s THEN <<Slice(s, e)>> \o OccurrencesFrom(table, n, e)
            ELSE OccurrencesFrom(table, n, s + 1)

\* the occurrences of terms k.. over the full text, term after term
RECURSIVE TermByTerm(_, _)
TermByTerm(terms, k) ==
    IF k > Len(terms) THEN <<>>
    ELSE OccurrencesFrom(match(options, terms[k], text).regex.table, Len(text), 0)
         \o TermByTerm(terms, k + 1)

C18_DuplicatesAndEmptyDropped ==
    (pc = "done" /\ first.taken) => slices = first.slices

\* a term given twice: its occurrences once, as for the term given once
C18_Witness ==
    /\ pc = "done"
    /\ first.taken
    /\ first.searchWords = << <<"a">>, <<"a">> >>
    /\ searchWords = << <<"a">> >>
    /\ Len(slices) = 2

\* ------------------------------------------------ empty text, nothing matched
\* C19: for the empty text slicing collects no span and sliceText returns no
\* span, whatever the terms and the options; fillSliceGaps with textLength 0
\* returns no span, whatever the span list.
C19_EmptyTextEmptyResult ==
    /\ (pc \in {"reduce", "exec", "body", "done", "threw"} /\ text = <<>>)
          => slices = <<>>
    /\ (pc = "done" /\ text = <<>>) => result = <<>>
    /\ (pc \in {"filled", "filledMerged"} /\ textLength = 0) => result = <<>>

\* fillSliceGaps given three non-empty spans and textLength 0
C19_Witness ==
    /\ pc = "filled"
    /\ textLength = 0
    /\ Len(slices) = 3
    /\ NonEmptySpans(slices)
    /\ result = <<>>

\* the one unmatched span over [0, n)
Whole(n) == << [start |-> 0, end |-> n, matched |-> "false"] >>

\* C20: fillSliceGaps given no span and textLength n > 0 returns the one
\* unmatched span 0..n, and so does sliceText on a non-empty text when the
\* term list is empty or no term has an occurrence.
C20_NothingMatchedOneSpan ==
    /\ (pc = "filled" /\ slices = <<>> /\ textLength > 0)
          => result = Whole(textLength)
    /\ (pc = "done" /\ slices = <<>> /\ text # <<>>)
          => result = Whole(Len(text))

\* two terms, neither of which occurs in a text of three code units
C20_Witness ==
    /\ pc = "done"
    /\ Len(words) = 2
    /\ Len(text) = 3
    /\ slices = <<>>
    /\ result = Whole(3)

\* ------------------------------------------------ escapeRegex, pattern
\* the sixteen characters ( ) [ ] { } / * + ? . \ ^ $ | -
Sixteen == {"(", ")", "[", "]", "{", "}", "/", "*", "+", "?", ".", "\\", "^",
            "$", "|", "-"}

\* how many of the first i characters of str are among the sixteen
SpecialsUpTo(str, i) == Cardinality({ j \in 1..i : str[j] \in Sixteen })

\* C21: escapeRegex returns the string in which every character of the
\* argument stands in its order, each of the sixteen special characters with
\* one backslash just before it, and nothing else; the empty string gives
\* the empty string.
C21_EscapeRegex ==
    pc = "escaped"
        => /\ Len(returned) = Len(fnWord) + SpecialsUpTo(fnWord, Len(fnWord))
           /\ \A i \in 1..Len(fnWord) :
                 LET k == i + SpecialsUpTo(fnWord, i) IN
                 /\ returned[k] = fnWord[i]
                 /\ fnWord[i] \in Sixteen => returned[k - 1] = "\\"
           /\ fnWord = <<>> => returned = <<>>

\* a-a : the hyphen is escaped, the letters are not
C21_Witness ==
    /\ pc = "escaped"
    /\ fnWord = <<"a", "-", "a">>
    /\ returned = <<"a", "\\", "-", "a">>

\* C22: pattern returns the word itself when boundary is false or the word
\* is empty or whitespace-only, and otherwise \b word \w+ for 'start',
\* \w+ word \b for 'end' and \b word \b for true.
C22_Pattern ==
    pc = "patterned"
        => returned =
             IF fnBoundary = "false" \/ \A i \in 1..Len(fnWord) : fnWord[i] = " "
             THEN fnWord
             ELSE CASE fnBoundary = "start" ->
                         <<"\\", "b">> \o fnWord \o <<"\\", "w", "+">>
                    [] fnBoundary = "end" ->
                         <<"\\", "w", "+">> \o fnWord \o <<"\\", "b">>
                    [] fnBoundary = "true" ->
                         <<"\\", "b">> \o fnWord \o <<"\\", "b">>

\* a whitespace-only word with boundary true comes back unchanged
C22_Witness ==
    /\ pc = "patterned"
    /\ fnBoundary = "true"
    /\ fnWord = <<" ", " ">>
    /\ returned = fnWord

\* ------------------------------------------------ boundary modes
\* the term is made of word characters
WordTerm(term) == term # <<>> /\ \A k \in 1..Len(term) : IsWordChar(term[k])

\* the boundary mode in force: that of the default options when options is
\* omitted, that of the options object otherwise
Mode == IF options.kind = "undefined" THEN "true"
        ELSE IF options.kind = "object" THEN options.boundary
        ELSE "none"

IgnoresCase == options.kind = "undefined" \/ options.caseSensitive # "true"

\* the term stands at s as a whole word: no word character just before it,
\* none just after it
StandsAsWord(txt, term, s, ignoreCase) ==
    /\ LiteralAt(txt, term, s, ignoreCase)
    /\ s = 0 \/ ~IsWordChar(txt[s])
    /\ s + Len(term) = Len(txt) \/ ~IsWordChar(txt[s + Len(term) + 1])

WordsOf(txt) ==
    { w \in (0..Len(txt)) \X (0..Len(txt)) :
        /\ w[1] < w[2]
        /\ \A i \in (w[1] + 1)..w[2] : IsWordChar(txt[i])
        /\ w[1] = 0 \/ ~IsWordChar(txt[w[1]])
        /\ w[2] = Len(txt) \/ ~IsWordChar(txt[w[2] + 1]) }

\* the words that begin ('start') or end ('end') with the term and are longer
\* than it
WordsWith(txt, term, mode, ignoreCase) ==
    { w \in WordsOf(txt) :
        /\ w[2] - w[1] > Len(term)
        /\ LiteralAt(txt, term,
                     IF mode = "start" THEN w[1] ELSE w[2] - Len(term),
                     ignoreCase) }

\* C24: with boundary mode 'start' ('end') and a term of word characters,
\* the spans of slicing are exactly the words of the text that begin (end)
\* with the term and are longer than it, each span covering the whole word,
\* in text order.
C24_StartEndWholeWord ==
    (Mode \in {"start", "end"} /\ pc = "done" /\ WordTerm(searchWords[1]))
        => /\ { <<slices[k].start, slices[k].end>> : k \in 1..Len(slices) }
                 = WordsWith(text, searchWords[1], Mode, IgnoresCase)
           /\ \A k \in 1..(Len(slices) - 1) : slices[k].end < slices[k + 1].start

\* 'end': the word Aa ends with the term a and is longer than it
C24_Witness ==
    /\ pc = "done"
    /\ options.kind = "object"
    /\ options.boundary = "end"
    /\ searchWords = << <<"a">> >>
    /\ text = <<"A", "a", " ">>
    /\ slices = <<Slice(0, 2)>>

\* ------------------------------------------------ the cursor of a scan
\* the cursor the loop body leaves after a find that reported m
CursorAfter(m) == IF m.index = m.end THEN m.end + 1 ELSE m.end

\* C25: within the scan of one term, every find that reports an occurrence
\* reports it at or after the cursor (so at or after the end of the previous
\* span of the term), and the cursor the next find starts from is strictly
\* greater than the cursor this find started from.
C25_CursorIncreases ==
    [][(pc = "exec" /\ pc' = "body")
          => /\ matched'.index >= regex.lastIndex
             /\ CursorAfter(matched') > regex.lastIndex]_vars

\* the same for the matchers without the u flag
C25_CursorIncreasesNoUnicode ==
    [][(pc = "exec" /\ pc' = "body" /\ regex.flags # "gu")
          => /\ matched'.index >= regex.lastIndex
             /\ CursorAfter(matched') > regex.lastIndex]_vars

\* ------------------------------------------------ escape, then boundary
\* the ends an occurrence starting at s may have when the term is read as a
\* literal and the anchors of the mode as anchors
LiteralEnds(txt, term, mode, s, ignoreCase) ==
    LET n == Len(term)
        m == IF IsBlank(term) THEN "false" ELSE mode
    IN IF m = "start"
       THEN { e \in (s + n + 1)..Len(txt) :
                /\ IsWordBoundary(txt, s)
                /\ LiteralAt(txt, term, s, ignoreCase)
                /\ \A i \in (s + n + 1)..e : IsWordChar(txt[i]) }
       ELSE IF m = "end"
       THEN { e \in (s + n + 1)..Len(txt) :
                /\ \A i \in (s + 1)..(e - n) : IsWordChar(txt[i])
                /\ LiteralAt(txt, term, e - n, ignoreCase)
                /\ IsWordBoundary(txt, e) }
       ELSE { e \in {s + n} :
                /\ LiteralAt(txt, term, s, ignoreCase)
                /\ m = "true" => /\ IsWordBoundary(txt, s)
                                 /\ IsWordBoundary(txt, e) }

\* for every position the longest such occurrence, or -1
LiteralTable(txt, term, mode, ignoreCase) ==
    [s \in 0..Len(txt) |->
        LET ends == LiteralEnds(txt, term, mode, s, ignoreCase)
        IN IF ends = {} THEN -1
           ELSE CHOOSE e \in ends : \A f \in ends : f <= e]

\* the term holds no special character
Plain(term) == \A k \in 1..Len(term) : term[k] \notin Sixteen

\* C26: for an options object, the term is escaped first and anchored
\* afterwards: with escape on (or a term without special characters) no
\* term fails to compile and the matcher finds the term as a literal under
\* the anchors of the boundary mode; the matcher has the g flag, and the i
\* flag exactly when caseSensitive is not set.
C26_EscapeThenBoundary ==
    (options.kind = "object"
     /\ pc \in {"exec", "body", "threw", "done"} /\ searchWords[1] # <<>>
     /\ (options.escape = "true" \/ Plain(searchWords[1])))
        => /\ thrown = "none"
           /\ Scanning
                => /\ regex.flags = IF options.caseSensitive = "true"
                                    THEN "g" ELSE "gi"
                   /\ regex.table =
                         LiteralTable(text, searchWords[1], options.boundary,
                                      options.caseSensitive # "true")

\* escape on, boundary 'start', term a*: a*a is found whole
C26_Witness ==
    /\ pc = "done"
    /\ options.kind = "object"
    /\ options.escape = "true"
    /\ options.boundary = "start"
    /\ searchWords = << <<"a", "*">> >>
    /\ text = <<"a", "*", "a">>
    /\ slices = <<Slice(0, 3)>>

\* ------------------------------------------------ errors
\* building the matcher of the term fails
Fails(term) == match(options, term, text).thrown # "none"

\* C27: a call returns only if the matcher of every term could be built; a
\* call whose matcher for some term could not be built has raised that
\* term's error at the first such term, has returned neither the spans
\* collected for the earlier terms nor any other result, and does nothing
\* more.
C27_ErrorPropagates ==
    /\ pc = "done"
          => /\ thrown = "none"
             /\ \A k \in 1..Len(words) : ~Fails(words[k])
    /\ pc = "threw"
          => /\ thrown # "none"
             /\ thrown = match(options, words[wi], text).thrown
             /\ \A k \in 1..(wi - 1) : ~Fails(words[k])
             /\ result = <<>> /\ merged = <<>>
             /\ ~ENABLED Next
    /\ (pc \in {"exec", "body"} \/ (pc = "reduce" /\ wi > Len(words)))
          => thrown = "none"

\* escape off: 'a' has given a span, '*' does not compile
C27_Witness ==
    /\ pc = "threw"
    /\ thrown = "SyntaxError"
    /\ words = << <<"a">>, <<"*">> >>
    /\ wi = 2
    /\ slices = <<Slice(0, 1)>>
    /\ result = <<>>

\* ------------------------------------------------ arguments
\* C28: a call of mergeOverlap or of fillSliceGaps leaves its argument as it
\* was: the same spans, in the same order, each with the same start, end
\* and matched values.
C28_ArgumentsUnchanged ==
    [][/\ (pc = "fns" /\ pc' \in {"merged", "filled"}) => slices' = slices
       /\ (pc = "merged" /\ pc' = "remerged") => merged' = merged
       /\ (pc = "remerged" /\ pc' = "filledMerged") => merged' = merged]_vars

\* mergeOverlap has returned the spans of an unsorted argument in order, and
\* the argument is still unsorted
C28_Witness ==
    /\ pc = "merged"
    /\ Len(slices) = 2
    /\ slices[1].start > slices[2].start
    /\ Len(merged) = 2
    /\ merged[1].start = slices[2].start

\* ------------------------------------------------ matchers handed out twice
\* C29: when the scan of a term has ended the cursor of its matcher is at 0,
\* so when slicing has returned every matcher it scanned with, and every
\* matcher the match function holds, is at 0; a second call with the same
\* text and terms, given the same matcher objects, returns the same spans.
C29_CursorBackAtStart ==
    /\ (pc \in {"reduce", "done"} /\ thrown = "none")
          => /\ calls # <<>> => regex.lastIndex = 0
             /\ \A k \in 1..Len(calls) : lastIndexes[calls[k]] = 0
    /\ pc = "done" => \A w \in Vocabulary : lastIndexes[w] = 0
    /\ (pc = "done" /\ first.taken)
          => /\ searchWords = first.searchWords
             /\ slices = first.slices
             /\ result = first.result

\* the second call has returned its span, found by the matcher that the first
\* call had left after its scan
C29_Witness ==
    /\ pc = "done"
    /\ first.taken
    /\ options.shared
    /\ text = <<"a">>
    /\ words = << <<"a">> >>
    /\ first.slices = <<Slice(0, 1)>>
    /\ slices = <<Slice(0, 1)>>

\* ------------------------------------------------ order and multiplicity
\* C30: a call of sliceText with the terms reordered, a term repeated or an
\* empty string added returns, and returns exactly the spans that the call
\* with the original list returned.
C30_OrderAndMultiplicity ==
    first.taken
        => /\ pc # "threw"
           /\ pc = "done" => result = first.result

\* terms a* and a read as patterns, then a and a*: slicing gives its spans
\* in another order, sliceText gives the same single span
C30_Witness ==
    /\ pc = "done"
    /\ first.taken
    /\ text = <<"a", "a">>
    /\ first.searchWords = << <<"a", "*">>, <<"a">> >>
    /\ searchWords = << <<"a">>, <<"a", "*">> >>
    /\ slices # first.slices
    /\ result = first.result
    /\ Len(result) = 1

====
